---- MODULE Spec2Model ----
(***************************************************************************)
(* Model of src/app.py: a Streamlit front end (login, dashboard, listing,  *)
(* register, edit/delete) over one MongoDB collection of project records.  *)
(*                                                                         *)
(* Representation choices                                                  *)
(*  - a Python str is a sequence of one-character strings, so that         *)
(*    replace/strip/int/float/format and MongoDB's string ordering are     *)
(*    computed character by character;                                     *)
(*  - a currency amount (Python float) is an integer number of centavos;   *)
(*    the typed texts that are enumerated carry at most two decimals;      *)
(*  - a percentage (Python float) is an exact reduced fraction <<n, d>>;   *)
(*  - a date is a day number, a datetime is [dia, seg].                    *)
(***************************************************************************)
EXTENDS Integers, Sequences, FiniteSets, TLC

VARIABLES
    projetos_col,   \* the MongoDB collection: documents in natural order
    unique_index,   \* whether the deployment has a unique index on ID_Projeto
    cache,          \* memo of carregar_dados (st.cache_data, shared by sessions)
    hoje,           \* date.today()
    pc,             \* per session: position inside a running script
    pendente,       \* per session: the write the running script is about to issue
    msgs,           \* per session: messages shown by the last script run
    tentativas,     \* per session: insert_one calls made by the last submit
    rejeitado,      \* per session: the last insert_one raised a duplicate-key error
    tela,           \* per session: the table rendered by the last script run
    submit,         \* per session: the form the last script run submitted
    emitidos,       \* history: ids assigned by register, in order
    session_state,  \* per session: st.session_state, a dict
    execucao,       \* per session: what the last script run did
    entrada,        \* input of the pure function under test
    saida           \* result of the pure function under test

vars == <<projetos_col, unique_index, cache, hoje, pc, pendente, msgs,
          tentativas, rejeitado, tela, submit, emitidos, session_state,
          execucao, entrada, saida>>

-----------------------------------------------------------------------------
(* Bounds *)

NumSessoes == 2
MaxCadastros == 2       \* successful registers in a run of Spec
MaxCadastrosSeq == 2    \* successful registers in a run of SpecSeq
MaxCadastrosTempo == 1  \* successful registers in a run of SpecTempo
MaxCadastrosFin == 1    \* successful registers in a run of SpecFin
MaxCadastrosLivre == 1  \* successful registers in a run of SpecFinLivre
MaxDia == 1             \* last day of the calendar of SpecTempo
MaxDiaProg == 4         \* last day of the calendar of SpecProg
NumTextos == 1          \* typed texts of SpecFin: the first of TextoLista
MaxIdsSujos == 2        \* documents of an initial collection of SpecId
MaxCadastrosLogin == 1  \* successful registers in a run of SpecLogin
MaxCadastrosConc == 2   \* successful registers in a run of SpecConc
MaxCadastrosPar == 1    \* successful registers in a run of SpecPar
MaxLinhas == 3          \* rows of a table of SpecFiltro

Sessoes == 1..NumSessoes

-----------------------------------------------------------------------------
(* Python str helpers *)

\* The characters used, in code-point order (the order MongoDB's default
\* binary string comparison and Python's comparisons use).
Alfabeto ==
    <<" ", "$", "+", ",", "-", ".",
      "0", "1", "2", "3", "4", "5", "6", "7", "8", "9",
      "A", "B", "E", "G", "J", "O", "P", "R", "Z", "a", "b", "c">>

Ord(c) == CHOOSE i \in 1..Len(Alfabeto) : Alfabeto[i] = c

Digitos == <<"0", "1", "2", "3", "4", "5", "6", "7", "8", "9">>

IsDigit(c) == \E i \in 1..10 : Digitos[i] = c

DigitVal(c) == (CHOOSE i \in 1..10 : Digitos[i] = c) - 1

AllDigits(s) == \A i \in 1..Len(s) : IsDigit(s[i])

RECURSIVE StrReplace(_, _, _)
\* str.replace(old, new): non-overlapping occurrences, left to right.
StrReplace(s, old, new) ==
    IF Len(s) < Len(old) THEN s
    ELSE IF SubSeq(s, 1, Len(old)) = old
         THEN new \o StrReplace(SubSeq(s, Len(old) + 1, Len(s)), old, new)
         ELSE <<s[1]>> \o StrReplace(Tail(s), old, new)

RECURSIVE LStrip(_)
LStrip(s) == IF s # <<>> /\ s[1] = " " THEN LStrip(Tail(s)) ELSE s

RECURSIVE RStrip(_)
RStrip(s) ==
    IF s # <<>> /\ s[Len(s)] = " " THEN RStrip(SubSeq(s, 1, Len(s) - 1)) ELSE s

\* str.strip()
Strip(s) == RStrip(LStrip(s))

RECURSIVE DigitsValue(_)
DigitsValue(s) ==
    IF s = <<>> THEN 0
    ELSE DigitsValue(SubSeq(s, 1, Len(s) - 1)) * 10 + DigitVal(s[Len(s)])

RECURSIVE DigitsOf(_)
\* decimal digits of a natural number
DigitsOf(n) ==
    IF n < 10 THEN <<Digitos[n + 1]>>
    ELSE DigitsOf(n \div 10) \o <<Digitos[(n % 10) + 1]>>

RECURSIVE ZeroPad(_, _)
ZeroPad(s, w) == IF Len(s) >= w THEN s ELSE ZeroPad(<<"0">> \o s, w)

\* int(s): surrounding blanks, an optional sign, then decimal digits;
\* anything else raises ValueError (ok = FALSE).
PyInt(s) ==
    LET t == Strip(s)
        sinal == t # <<>> /\ t[1] \in {"+", "-"}
        d == IF sinal THEN Tail(t) ELSE t
    IN  IF d # <<>> /\ AllDigits(d)
        THEN [ok |-> TRUE,
              v |-> IF sinal /\ t[1] = "-" THEN 0 - DigitsValue(d)
                    ELSE DigitsValue(d)]
        ELSE [ok |-> FALSE, v |-> 0]

\* f"{num:03d}": zero padded to width 3, the sign counting in the width.
Fmt03d(num) ==
    IF num < 0 THEN <<"-">> \o ZeroPad(DigitsOf(0 - num), 2)
    ELSE ZeroPad(DigitsOf(num), 3)

RECURSIVE StrLess(_, _)
\* a < b in binary (code point) order
StrLess(a, b) ==
    IF b = <<>> THEN FALSE
    ELSE IF a = <<>> THEN TRUE
    ELSE IF a[1] = b[1] THEN StrLess(Tail(a), Tail(b))
    ELSE Ord(a[1]) < Ord(b[1])

PROJ == <<"P", "R", "O", "J">>

PROJ001 == PROJ \o <<"0", "0", "1">>

-----------------------------------------------------------------------------
(* Currency texts and amounts (src/app.py:102-107, 496) *)

\* float(s): surrounding blanks, an optional sign, digits with at most one
\* decimal point and at least one digit; anything else raises ValueError.
\* The value is in centavos (decimals beyond the second are dropped; no
\* enumerated text has any).
PyFloat(s) ==
    LET t == Strip(s)
        sinal == t # <<>> /\ t[1] \in {"+", "-"}
        d == IF sinal THEN Tail(t) ELSE t
        pontos == {i \in 1..Len(d) : d[i] = "."}
        p == IF pontos = {} THEN Len(d) + 1 ELSE CHOOSE i \in pontos : TRUE
        int == SubSeq(d, 1, p - 1)
        frac == SubSeq(d, p + 1, Len(d))
        frac2 == SubSeq(frac \o <<"0", "0">>, 1, 2)
        mag == DigitsValue(int) * 100 + DigitsValue(frac2)
    IN  IF /\ Cardinality(pontos) <= 1
           /\ Len(int) + Len(frac) > 0
           /\ AllDigits(int) /\ AllDigits(frac)
        THEN [ok |-> TRUE, v |-> IF sinal /\ t[1] = "-" THEN 0 - mag ELSE mag]
        ELSE [ok |-> FALSE, v |-> 0]

parse_currency_input(text_input) ==
    LET r == PyFloat(StrReplace(StrReplace(StrReplace(text_input,
                         <<"R", "$">>, <<>>), <<".">>, <<>>), <<",">>, <<".">>))
    IN  IF r.ok THEN r.v ELSE 0

RECURSIVE Milhares(_)
\* thousands grouping of a digit string with "."
Milhares(ds) ==
    IF Len(ds) <= 3 THEN ds
    ELSE Milhares(SubSeq(ds, 1, Len(ds) - 3)) \o <<".">>
         \o SubSeq(ds, Len(ds) - 2, Len(ds))

\* f"{val:,.2f}".replace(",", "X").replace(".", ",").replace("X", "."):
\* the default text of an amount field of the edit form.
FormatarValor(val) ==
    LET mag == IF val < 0 THEN 0 - val ELSE val
    IN  (IF val < 0 THEN <<"-">> ELSE <<>>)
        \o Milhares(DigitsOf(mag \div 100)) \o <<",">>
        \o ZeroPad(DigitsOf(mag % 100), 2)

-----------------------------------------------------------------------------
(* Percentages as exact fractions *)

RECURSIVE GCD(_, _)
GCD(a, b) == IF b = 0 THEN a ELSE GCD(b, a % b)

Abs(x) == IF x < 0 THEN 0 - x ELSE x

\* n / d as a reduced fraction with positive denominator (d # 0)
Frac(n, d) ==
    LET g == GCD(Abs(n), Abs(d))
        s == IF d < 0 THEN 0 - 1 ELSE 1
    IN  <<(s * n) \div g, (s * d) \div g>>

Zero == <<0, 1>>

\* the outcome of a float division by zero: Python raises ZeroDivisionError
ZeroDivisionError == <<0, 0>>

\* (a / b) * 100
Percentual(a, b) == IF b = 0 THEN ZeroDivisionError ELSE Frac(a * 100, b)

-----------------------------------------------------------------------------
(* Dates *)

None == [t |-> "None", dia |-> 0, seg |-> 0]

Date(d) == [t |-> "date", dia |-> d, seg |-> 0]

\* datetime.combine(d, datetime.min.time())
DatetimeCombine(d) == [t |-> "datetime", dia |-> d.dia, seg |-> 0]

to_date(dt) == IF dt.t = "datetime" THEN Date(dt.dia) ELSE dt

\* round(num / den, 0) to the nearest integer, ties to even
RoundHalfEven(num, den) ==
    LET q == num \div den
        r == num % den
    IN  IF 2 * r < den THEN q
        ELSE IF 2 * r > den THEN q + 1
        ELSE IF q % 2 = 0 THEN q ELSE q + 1

\* calcular_progresso with the end of the window excluded
calcular_progresso_limite_errado(data_inicio, data_termino, hj) ==
    IF data_inicio.t = "None" \/ data_termino.t = "None" THEN 0
    ELSE LET data_inicio_date == to_date(data_inicio).dia
             data_termino_date == to_date(data_termino).dia
             dias_totais == data_termino_date - data_inicio_date
             dias_passados == hj - data_inicio_date
         IN  IF data_termino_date < data_inicio_date THEN 0
             ELSE IF dias_totais <= 0
                  THEN (IF hj > data_termino_date THEN 10000 ELSE 0)
             ELSE IF hj <= data_inicio_date THEN 0
             ELSE IF hj > data_termino_date THEN 10000
             ELSE RoundHalfEven(dias_passados * 10000, dias_totais)

\* calcular_progresso, with date.today() passed as hj; the result is in
\* hundredths of a percent (round(progresso, 2) * 100).
calcular_progresso(data_inicio, data_termino, hj) ==
    IF data_inicio.t = "None" \/ data_termino.t = "None" THEN 0
    ELSE LET data_inicio_date == to_date(data_inicio).dia
             data_termino_date == to_date(data_termino).dia
             dias_totais == data_termino_date - data_inicio_date
             dias_passados == hj - data_inicio_date
         IN  IF data_termino_date < data_inicio_date THEN 0
             ELSE IF dias_totais <= 0
                  THEN (IF hj >= data_termino_date THEN 10000 ELSE 0)
             ELSE IF hj <= data_inicio_date THEN 0
             ELSE IF hj >= data_termino_date THEN 10000
             ELSE RoundHalfEven(dias_passados * 10000, dias_totais)

-----------------------------------------------------------------------------
(* The id generator (src/app.py:180-192) *)

\* find_one(sort=[("ID_Projeto", -1)]): a document whose ID_Projeto no other
\* document's exceeds in MongoDB's string order.
UltimoProjeto(col) ==
    CHOOSE i \in 1..Len(col) :
        \A j \in 1..Len(col) : ~StrLess(col[i].ID_Projeto, col[j].ID_Projeto)

gerar_id_otimizado(col) ==
    IF Len(col) = 0 THEN PROJ001
    ELSE LET ultimo_id == col[UltimoProjeto(col)].ID_Projeto
             num == PyInt(StrReplace(ultimo_id, PROJ, <<>>))
         IN  IF num.ok THEN PROJ \o Fmt03d(num.v + 1) ELSE PROJ001

-----------------------------------------------------------------------------
(* Form inputs and the record a submit builds *)

\* The five amounts of the register form (src/app.py:355, 381-394): a field
\* is parsed only when its text input is displayed, else it stays 0.
ValoresCadastro(inp) ==
    LET tem_orcamento == inp.tem_orcamento
        linha_base == inp.linha_base
    IN  [Orcamento |-> IF tem_orcamento
                       THEN parse_currency_input(inp.orcamento_str) ELSE 0,
         Baseline |-> IF linha_base
                      THEN parse_currency_input(inp.baseline_str) ELSE 0,
         Melhor_Proposta |-> IF tem_orcamento \/ linha_base
                             THEN parse_currency_input(inp.melhor_proposta_str)
                             ELSE 0,
         Preco_Inicial |-> IF ~(tem_orcamento \/ linha_base)
                           THEN parse_currency_input(inp.preco_inicial_str)
                           ELSE 0,
         Preco_Final |-> IF ~(tem_orcamento \/ linha_base)
                         THEN parse_currency_input(inp.preco_final_str) ELSE 0]

\* KpisCadastro with the percentages divided whatever the denominator
KpisCadastro_sem_guarda(tem_orcamento, linha_base, v) ==
    LET livre == ~(tem_orcamento \/ linha_base)
        ce_r == IF livre THEN v.Preco_Inicial - v.Preco_Final ELSE 0
        saving_r == IF tem_orcamento THEN v.Orcamento - v.Melhor_Proposta ELSE 0
        ce_baseline == IF linha_base THEN v.Baseline - v.Melhor_Proposta ELSE 0
    IN  [Saving_R |-> saving_r,
         Saving_Percent |->
             IF tem_orcamento THEN Percentual(saving_r, v.Orcamento) ELSE Zero,
         CE_Baseline_R |-> ce_baseline,
         Percentual_CE_Linha_de_base |->
             IF linha_base THEN Percentual(ce_baseline, v.Baseline) ELSE Zero,
         CE_R |-> ce_r,
         Porcentagem_CE |->
             IF livre THEN Percentual(ce_r, v.Preco_Inicial) ELSE Zero]

\* The six derived fields of the register form (src/app.py:355, 395-409).
KpisCadastro(tem_orcamento, linha_base, v) ==
    LET livre == ~(tem_orcamento \/ linha_base)
        ce_r == IF livre THEN v.Preco_Inicial - v.Preco_Final ELSE 0
        saving_r == IF tem_orcamento THEN v.Orcamento - v.Melhor_Proposta ELSE 0
        ce_baseline == IF linha_base THEN v.Baseline - v.Melhor_Proposta ELSE 0
    IN  [Saving_R |-> saving_r,
         Saving_Percent |->
             IF tem_orcamento /\ v.Orcamento # 0
             THEN Percentual(saving_r, v.Orcamento) ELSE Zero,
         CE_Baseline_R |-> ce_baseline,
         Percentual_CE_Linha_de_base |->
             IF linha_base /\ v.Baseline # 0
             THEN Percentual(ce_baseline, v.Baseline) ELSE Zero,
         CE_R |-> ce_r,
         Porcentagem_CE |->
             IF livre /\ v.Preco_Inicial # 0
             THEN Percentual(ce_r, v.Preco_Inicial) ELSE Zero]

\* The five amounts of the edit form (src/app.py:493-512).
ValoresEdicao(inp) ==
    LET tem_orcamento == inp.tem_orcamento
        linha_base == inp.linha_base
    IN  [Orcamento |-> IF tem_orcamento
                       THEN parse_currency_input(inp.orcamento_str) ELSE 0,
         Baseline |-> IF linha_base
                      THEN parse_currency_input(inp.baseline_str) ELSE 0,
         Melhor_Proposta |-> IF tem_orcamento \/ linha_base
                             THEN parse_currency_input(inp.melhor_proposta_str)
                             ELSE 0,
         Preco_Inicial |-> IF ~(tem_orcamento \/ linha_base)
                           THEN parse_currency_input(inp.preco_inicial_str)
                           ELSE 0,
         Preco_Final |-> IF ~(tem_orcamento \/ linha_base)
                         THEN parse_currency_input(inp.preco_final_str) ELSE 0]

\* KpisEdicao with the saving computed whatever the flag
KpisEdicao_sem_flag(tem_orcamento, linha_base, v) ==
    LET livre == ~(tem_orcamento \/ linha_base)
        saving_r == v.Orcamento - v.Melhor_Proposta
        ce_baseline == v.Baseline - v.Melhor_Proposta
        ce_r == IF livre THEN v.Preco_Inicial - v.Preco_Final ELSE 0
    IN  [Saving_R |-> saving_r,
         Saving_Percent |->
             IF tem_orcamento /\ v.Orcamento # 0
             THEN Percentual(saving_r, v.Orcamento) ELSE Zero,
         CE_Baseline_R |-> ce_baseline,
         Percentual_CE_Linha_de_base |->
             IF linha_base /\ v.Baseline # 0
             THEN Percentual(ce_baseline, v.Baseline) ELSE Zero,
         CE_R |-> ce_r,
         Porcentagem_CE |->
             IF livre /\ v.Preco_Inicial # 0
             THEN Percentual(ce_r, v.Preco_Inicial) ELSE Zero]

\* The six derived fields of the edit form (src/app.py:515-520).
KpisEdicao(tem_orcamento, linha_base, v) ==
    LET livre == ~(tem_orcamento \/ linha_base)
        saving_r == IF tem_orcamento THEN v.Orcamento - v.Melhor_Proposta ELSE 0
        ce_baseline == IF linha_base THEN v.Baseline - v.Melhor_Proposta ELSE 0
        ce_r == IF livre THEN v.Preco_Inicial - v.Preco_Final ELSE 0
    IN  [Saving_R |-> saving_r,
         Saving_Percent |->
             IF tem_orcamento /\ v.Orcamento # 0
             THEN Percentual(saving_r, v.Orcamento) ELSE Zero,
         CE_Baseline_R |-> ce_baseline,
         Percentual_CE_Linha_de_base |->
             IF linha_base /\ v.Baseline # 0
             THEN Percentual(ce_baseline, v.Baseline) ELSE Zero,
         CE_R |-> ce_r,
         Porcentagem_CE |->
             IF livre /\ v.Preco_Inicial # 0
             THEN Percentual(ce_r, v.Preco_Inicial) ELSE Zero]

\* The fields both submits write, all but ID_Projeto (the dict literals of
\* src/app.py:428-439 and 558-570).
Campos(inp, v, k, hj) ==
    [Tem_Orcamento |-> inp.tem_orcamento,
     Linha_de_base |-> inp.linha_base,
     Orcamento |-> v.Orcamento,
     Baseline |-> v.Baseline,
     Melhor_Proposta |-> v.Melhor_Proposta,
     Preco_Inicial |-> v.Preco_Inicial,
     Preco_Final |-> v.Preco_Final,
     Saving_R |-> k.Saving_R,
     Saving_Percent |-> k.Saving_Percent,
     CE_Baseline_R |-> k.CE_Baseline_R,
     Percentual_CE_Linha_de_base |-> k.Percentual_CE_Linha_de_base,
     CE_R |-> k.CE_R,
     Porcentagem_CE |-> k.Porcentagem_CE,
     Data_Inicio |-> DatetimeCombine(inp.data_inicio),
     Data_Termino |-> DatetimeCombine(inp.data_termino),
     Dias |-> inp.data_termino.dia - inp.data_inicio.dia,
     Progresso_Porcentagem |->
         calcular_progresso(inp.data_inicio, inp.data_termino, hj)]

\* projeto of the register submit (src/app.py:427-440)
ProjetoCadastro(id_projeto, inp, hj) ==
    LET v == ValoresCadastro(inp)
    IN  [ID_Projeto |-> id_projeto]
        @@ Campos(inp, v, KpisCadastro(inp.tem_orcamento, inp.linha_base, v), hj)

\* dados_atualizados of the edit submit (src/app.py:557-571)
DadosAtualizados(inp, hj) ==
    LET v == ValoresEdicao(inp)
    IN  Campos(inp, v, KpisEdicao(inp.tem_orcamento, inp.linha_base, v), hj)

\* the date check, off by one day
DatasInvalidas_por_um(inp) ==
    inp.data_termino.dia < inp.data_inicio.dia - 1

\* the date check of both submits (src/app.py:423, 554)
DatasInvalidas(inp) == inp.data_termino.dia < inp.data_inicio.dia

-----------------------------------------------------------------------------
(* The collection (pymongo) *)

Ids(col) == {col[i].ID_Projeto : i \in 1..Len(col)}

\* find_one({"ID_Projeto": id}): position of the first match, 0 when none
FindOne(col, id) ==
    IF id \in Ids(col)
    THEN CHOOSE i \in 1..Len(col) :
            /\ col[i].ID_Projeto = id
            /\ \A j \in 1..(i - 1) : col[j].ID_Projeto # id
    ELSE 0

\* insert_one raises DuplicateKeyError when the collection has a unique index
\* on ID_Projeto and the id is present
InsertRejeitado(col, doc, unico) == unico /\ doc.ID_Projeto \in Ids(col)

InsertOne(col, doc) == Append(col, doc)

\* a replacement of the whole document by the submitted fields
SetCampos_substitui(doc, dados) == [ID_Projeto |-> <<>>] @@ dados

\* {"$set": dados} applied to a document: the named fields are replaced, the
\* others (ID_Projeto) are kept
SetCampos(doc, dados) == dados @@ doc

\* update_one with upsert=True
UpdateOne_upsert(col, id, dados) ==
    IF id \in Ids(col)
    THEN [col EXCEPT ![CHOOSE i \in 1..Len(col) : col[i].ID_Projeto = id] =
              dados @@ col[CHOOSE i \in 1..Len(col) : col[i].ID_Projeto = id]]
    ELSE Append(col, [ID_Projeto |-> id] @@ dados)

\* update_one({"ID_Projeto": id}, {"$set": dados}): the first match is updated
UpdateOne(col, id, dados) ==
    LET i == FindOne(col, id)
    IN  IF i = 0 THEN col ELSE [col EXCEPT ![i] = SetCampos(col[i], dados)]

\* result.modified_count
ModifiedCount(col, id, dados) ==
    LET i == FindOne(col, id)
    IN  IF i # 0 /\ SetCampos(col[i], dados) # col[i] THEN 1 ELSE 0

\* delete_one({"ID_Projeto": id}): the first match is removed
DeleteOne(col, id) ==
    LET i == FindOne(col, id)
    IN  IF i = 0 THEN col
        ELSE SubSeq(col, 1, i - 1) \o SubSeq(col, i + 1, Len(col))

\* resultado.deleted_count
DeletedCount(col, id) == IF FindOne(col, id) # 0 THEN 1 ELSE 0

-----------------------------------------------------------------------------
(* What a user can submit *)

\* value="0,00" of the amount fields of the register form
TextoPadrao == <<"0", ",", "0", "0">>

\* texts a user types into an amount field
TextoLista ==
    << <<"1", ".", "0", "0", "0", ",", "0", "0">>,
       <<"a", "b", "c">>,
       <<"-", "1", ",", "0", "0">>,
       <<"R", "$", " ", "8", "0", "0", ",", "0", "0">> >>

Textos == {TextoLista[i] : i \in 1..NumTextos}

TodosTextos == {TextoLista[i] : i \in 1..Len(TextoLista)}

Entrada(t, l, o, b, m, pi, pf, d) ==
    [tem_orcamento |-> t, linha_base |-> l,
     orcamento_str |-> o, baseline_str |-> b, melhor_proposta_str |-> m,
     preco_inicial_str |-> pi, preco_final_str |-> pf,
     data_inicio |-> Date(d[1]), data_termino |-> Date(d[2])]

\* The submits of a form whose amount fields show the default texts `p`
\* (a record of five texts): a displayed field holds its default or a typed
\* text, a field that is not displayed holds nothing that is read.
Entradas(dom, p) ==
    LET O == dom.textos \cup {p.orcamento_str}
        B == dom.textos \cup {p.baseline_str}
        M == dom.textos \cup {p.melhor_proposta_str}
        I == dom.textos \cup {p.preco_inicial_str}
        F == dom.textos \cup {p.preco_final_str}
        V == TextoPadrao
    IN  UNION {
          IF fl = <<FALSE, FALSE>>
          THEN {Entrada(FALSE, FALSE, V, V, V, pi, pf, d) :
                    pi \in I, pf \in F, d \in dom.datas}
          ELSE IF fl = <<TRUE, FALSE>>
          THEN {Entrada(TRUE, FALSE, o, V, m, V, V, d) :
                    o \in O, m \in M, d \in dom.datas}
          ELSE IF fl = <<FALSE, TRUE>>
          THEN {Entrada(FALSE, TRUE, V, b, m, V, V, d) :
                    b \in B, m \in M, d \in dom.datas}
          ELSE {Entrada(TRUE, TRUE, o, b, m, V, V, d) :
                    o \in O, b \in B, m \in M, d \in dom.datas}
          : fl \in dom.flags}

\* default texts of the register form (src/app.py:382-393)
PadraoCadastro ==
    [orcamento_str |-> TextoPadrao, baseline_str |-> TextoPadrao,
     melhor_proposta_str |-> TextoPadrao, preco_inicial_str |-> TextoPadrao,
     preco_final_str |-> TextoPadrao]

\* default texts of the edit form: the stored amounts, formatted
\* (src/app.py:495-511)
PadraoEdicao(projeto_existente) ==
    [orcamento_str |-> FormatarValor(projeto_existente.Orcamento),
     baseline_str |-> FormatarValor(projeto_existente.Baseline),
     melhor_proposta_str |-> FormatarValor(projeto_existente.Melhor_Proposta),
     preco_inicial_str |-> FormatarValor(projeto_existente.Preco_Inicial),
     preco_final_str |-> FormatarValor(projeto_existente.Preco_Final)]

Quadrado(S) == {<<a, b>> : a \in S, b \in S}

DomBasico ==
    [flags |-> {<<FALSE, FALSE>>}, textos |-> {},
     datas |-> {<<0, 0>>, <<0, 1>>, <<1, 0>>}]

DomTempo ==
    [flags |-> {<<FALSE, FALSE>>}, textos |-> {}, datas |-> Quadrado(0..MaxDia)]

DomFin ==
    [flags |-> Quadrado(BOOLEAN), textos |-> Textos, datas |-> {<<0, 0>>}]

DomFinLivre ==
    [flags |-> Quadrado(BOOLEAN), textos |-> TodosTextos,
     datas |-> {<<0, 0>>}]

-----------------------------------------------------------------------------
(* carregar_dados and its memo (src/app.py:129-149) *)

\* pd.to_datetime on the columns whose name contains 'Data'
PdToDatetime(x) == IF x.t = "date" THEN DatetimeCombine(x) ELSE x

DataFrame(col) ==
    [i \in 1..Len(col) |->
        [col[i] EXCEPT !.Data_Inicio = PdToDatetime(@),
                       !.Data_Termino = PdToDatetime(@)]]

CacheVazio == [valido |-> FALSE, df |-> <<>>]

\* the memo after a call of carregar_dados()
Carregar(c, col) ==
    IF c.valido THEN c ELSE [valido |-> TRUE, df |-> DataFrame(col)]

\* carregar_dados.clear() followed by st.rerun(): the next run loads again
LimparERecarregar(col) == [valido |-> TRUE, df |-> DataFrame(col)]

TelaVazia == [aba |-> "nenhuma", dia |-> 0, linhas |-> <<>>]

NadaPendente == [id |-> <<>>, dados |-> <<>>]

-----------------------------------------------------------------------------
(* Login (src/app.py:12-47) *)

\* st.secrets["login_password"]
login_password == "segredo"

\* what a user types into the password field
Senhas == {login_password, "errada"}

\* st.session_state of a new session: no key
SessaoNova == <<>>

\* st.session_state of a session that has logged in: the callback deleted
\* the key "password"
Autenticada == [password_correct |-> TRUE]

\* password_entered, the on_change callback of the password field
\* (src/app.py:14-20), with the widget value already stored under its key
password_entered(ss) ==
    IF ss.password = login_password
    THEN [password_correct |-> TRUE]
    ELSE [password_correct |-> FALSE, password |-> ss.password]

\* a gate that lets every run through
check_password_sem_flag(ss) == [ret |-> TRUE, ss |-> ss]

\* check_password() (src/app.py:22-36): the value returned, and the session
\* state it leaves (the flag initialised, the password field registered
\* under its key when the login form is shown)
check_password(ss) ==
    LET ss1 == IF "password_correct" \in DOMAIN ss THEN ss
               ELSE [password_correct |-> FALSE] @@ ss
    IN  IF ~ss1.password_correct
        THEN [ret |-> FALSE,
              ss |-> IF "password" \in DOMAIN ss1 THEN ss1
                     ELSE [password |-> ""] @@ ss1]
        ELSE [ret |-> TRUE, ss |-> ss1]

SemExecucao == [db |-> FALSE, senha |-> ""]

\* the login gate (src/app.py:46-47) passed by a script run of session s:
\* the run goes on to the database code (src/app.py:112 on)
Executa(s) ==
    /\ check_password(session_state[s]).ret
    /\ execucao' = [execucao EXCEPT ![s] = [db |-> TRUE, senha |-> ""]]
    /\ session_state' = [session_state EXCEPT
                             ![s] = check_password(session_state[s]).ss]

-----------------------------------------------------------------------------
(* The writes of the three handlers, on the collection as it is when the
   write is issued *)

\* gerar_id_otimizado is a plain function (src/app.py:180 has no cache
\* decorator), so gerar_id_otimizado.clear() raises AttributeError
GerarIdTemClear == FALSE

\* the try block of the register submit (src/app.py:441-448)
SalvarProjeto(col, projeto, unico) ==
    IF InsertRejeitado(col, projeto, unico)
    THEN [col |-> col, inserido |-> FALSE, rejeitado |-> TRUE,
          msgs |-> {"erro_salvar"}, limpa |-> FALSE, rerun |-> FALSE]
    ELSE [col |-> InsertOne(col, projeto), inserido |-> TRUE,
          rejeitado |-> FALSE,
          msgs |-> IF GerarIdTemClear THEN {"salvo"}
                   ELSE {"salvo", "erro_salvar"},
          limpa |-> TRUE, rerun |-> GerarIdTemClear]

\* the try block of the edit submit (src/app.py:572-581)
AtualizarProjeto(col, projeto_selecionado, dados_atualizados) ==
    LET n == ModifiedCount(col, projeto_selecionado, dados_atualizados)
    IN  [col |-> UpdateOne(col, projeto_selecionado, dados_atualizados),
         msgs |-> IF n > 0 THEN {"atualizado"} ELSE {"sem_alteracao"},
         limpa |-> n > 0, rerun |-> n > 0]

\* the try block of the delete button (src/app.py:583-593)
ExcluirProjeto(col, projeto_selecionado) ==
    LET n == DeletedCount(col, projeto_selecionado)
    IN  [col |-> DeleteOne(col, projeto_selecionado),
         msgs |-> IF n > 0 THEN {"excluido"} ELSE {"nao_encontrado_exclusao"},
         limpa |-> n > 0, rerun |-> n > 0]

\* the memo after a handler's write: cleared, and loaded again by the rerun
CacheApos(r, c) ==
    IF r.limpa
    THEN (IF r.rerun THEN LimparERecarregar(r.col) ELSE CacheVazio)
    ELSE c

\* the KPI arithmetic of a form body raised (src/app.py:395-409, 515-520):
\* the script run ends there, with the traceback on the page
Levanta(k) ==
    ZeroDivisionError \in {k.Saving_Percent, k.Percentual_CE_Linha_de_base,
                           k.Porcentagem_CE}

CadastroLevanta(inp) ==
    Levanta(KpisCadastro(inp.tem_orcamento, inp.linha_base,
                         ValoresCadastro(inp)))

EdicaoLevanta(inp) ==
    Levanta(KpisEdicao(inp.tem_orcamento, inp.linha_base, ValoresEdicao(inp)))

-----------------------------------------------------------------------------
(* Script runs of one session, each a single step (no other session runs
   between its reads and its write) *)

SemSubmit == [op |-> "nenhuma", alvo |-> <<>>, termino_antes |-> FALSE]

\* what a run of session s leaves: the form it submitted, its messages, and
\* a page without a table
Fim(s, op, inp, m) ==
    /\ submit' = [submit EXCEPT ![s] =
                     [op |-> op, alvo |-> <<>>,
                      termino_antes |->
                          inp.data_termino.dia < inp.data_inicio.dia]]
    /\ msgs' = [msgs EXCEPT ![s] = m]
    /\ tela' = [tela EXCEPT ![s] = TelaVazia]

\* the same for a run of "Editar/Excluir" with projeto_selecionado chosen
\* (src/app.py:458) and one of the two buttons of the form pressed
FimEdicao(s, op, projeto_selecionado, inp, m) ==
    /\ submit' = [submit EXCEPT ![s] =
                     [op |-> op, alvo |-> projeto_selecionado,
                      termino_antes |->
                          inp.data_termino.dia < inp.data_inicio.dia]]
    /\ msgs' = [msgs EXCEPT ![s] = m]
    /\ tela' = [tela EXCEPT ![s] = TelaVazia]

\* the same for a run that submits no form
FimSemSubmit(s, m) ==
    /\ submit' = [submit EXCEPT ![s] = SemSubmit]
    /\ msgs' = [msgs EXCEPT ![s] = m]
    /\ tela' = [tela EXCEPT ![s] = TelaVazia]

\* "Cadastrar Projeto" with the form submitted (src/app.py:346-448)
Cadastrar(s, dom, max) ==
    /\ pc[s] = "idle"
    /\ Executa(s)
    /\ Len(emitidos) < max
    /\ \E inp \in Entradas(dom, PadraoCadastro),
          c1 \in {Carregar(cache, projetos_col)},
          id_projeto \in {gerar_id_otimizado(projetos_col)} :
         IF CadastroLevanta(inp) \/ DatasInvalidas(inp)
         THEN /\ Fim(s, "cadastrar", inp,
                     IF CadastroLevanta(inp) THEN {"excecao"}
                     ELSE {"erro_data"})
              /\ cache' = c1
              /\ tentativas' = [tentativas EXCEPT ![s] = 0]
              /\ rejeitado' = [rejeitado EXCEPT ![s] = FALSE]
              /\ UNCHANGED <<projetos_col, emitidos>>
         ELSE \E r \in {SalvarProjeto(projetos_col,
                            ProjetoCadastro(id_projeto, inp, hoje),
                            unique_index)} :
                /\ Fim(s, "cadastrar", inp, r.msgs)
                /\ projetos_col' = r.col
                /\ cache' = CacheApos(r, c1)
                /\ tentativas' = [tentativas EXCEPT ![s] = 1]
                /\ rejeitado' = [rejeitado EXCEPT ![s] = r.rejeitado]
                /\ emitidos' = IF r.inserido
                               THEN Append(emitidos, id_projeto)
                               ELSE emitidos
    /\ UNCHANGED <<unique_index, hoje, pc, pendente, entrada, saida>>

\* "Editar/Excluir" with "Salvar Alterações" pressed (src/app.py:450-581)
Editar(s, dom) ==
    /\ pc[s] = "idle"
    /\ Executa(s)
    /\ \E c1 \in {Carregar(cache, projetos_col)} :
         \E projeto_selecionado \in Ids(c1.df) :
           \E i \in {FindOne(projetos_col, projeto_selecionado)} :
             IF i = 0
             THEN /\ FimSemSubmit(s, {"nao_encontrado"})
                  /\ cache' = c1
                  /\ UNCHANGED projetos_col
             ELSE \E inp \in Entradas(dom, PadraoEdicao(projetos_col[i])) :
                    IF EdicaoLevanta(inp) \/ DatasInvalidas(inp)
                    THEN /\ FimEdicao(s, "editar", projeto_selecionado, inp,
                                      IF EdicaoLevanta(inp) THEN {"excecao"}
                                      ELSE {"erro_data"})
                         /\ cache' = c1
                         /\ UNCHANGED projetos_col
                    ELSE \E r \in {AtualizarProjeto(projetos_col,
                                       projeto_selecionado,
                                       DadosAtualizados(inp, hoje))} :
                           /\ FimEdicao(s, "editar", projeto_selecionado,
                                        inp, r.msgs)
                           /\ projetos_col' = r.col
                           /\ cache' = CacheApos(r, c1)
    /\ UNCHANGED <<unique_index, hoje, pc, pendente, tentativas, rejeitado,
                   emitidos, entrada, saida>>

\* "Editar/Excluir" with "Excluir Projeto" pressed (src/app.py:450-468, 583-595)
Excluir(s) ==
    /\ pc[s] = "idle"
    /\ Executa(s)
    /\ \E c1 \in {Carregar(cache, projetos_col)} :
         \E projeto_selecionado \in Ids(c1.df) :
           IF FindOne(projetos_col, projeto_selecionado) = 0
           THEN /\ FimSemSubmit(s, {"nao_encontrado"})
                /\ cache' = c1
                /\ UNCHANGED projetos_col
           ELSE \E r \in {ExcluirProjeto(projetos_col, projeto_selecionado)} :
                  /\ FimEdicao(s, "excluir", projeto_selecionado,
                               [data_inicio |-> Date(0),
                                data_termino |-> Date(0)], r.msgs)
                  /\ projetos_col' = r.col
                  /\ cache' = CacheApos(r, c1)
    /\ UNCHANGED <<unique_index, hoje, pc, pendente, tentativas, rejeitado,
                   emitidos, entrada, saida>>

\* a row of a rendered table: the columns the progress claim reads
Linha(row, progresso) ==
    [ID_Projeto |-> row.ID_Projeto, Data_Inicio |-> row.Data_Inicio,
     Data_Termino |-> row.Data_Termino, Progresso_Porcentagem |-> progresso]

\* "Dashboard": st.dataframe(df_filtrado) shows the loaded columns as they
\* are (src/app.py:235-312)
TabelaDashboard(df) ==
    [i \in 1..Len(df) |-> Linha(df[i], df[i].Progresso_Porcentagem)]

\* "Listar Projetos": Progresso_Porcentagem is computed again for every row
\* before the grid is built (src/app.py:314-344)
TabelaListar(df, hj) ==
    [i \in 1..Len(df) |->
        Linha(df[i],
              calcular_progresso(df[i].Data_Inicio, df[i].Data_Termino, hj))]

VerDashboard(s) ==
    /\ pc[s] = "idle"
    /\ Executa(s)
    /\ cache' = Carregar(cache, projetos_col)
    /\ msgs' = [msgs EXCEPT ![s] = {}]
    /\ submit' = [submit EXCEPT ![s] = SemSubmit]
    /\ tela' = [tela EXCEPT ![s] = [aba |-> "Dashboard", dia |-> hoje,
                                    linhas |-> TabelaDashboard(cache'.df)]]
    /\ UNCHANGED <<projetos_col, unique_index, hoje, pc, pendente, tentativas,
                   rejeitado, emitidos, entrada, saida>>

VerListar(s) ==
    /\ pc[s] = "idle"
    /\ Executa(s)
    /\ cache' = Carregar(cache, projetos_col)
    /\ msgs' = [msgs EXCEPT ![s] = {}]
    /\ submit' = [submit EXCEPT ![s] = SemSubmit]
    /\ tela' = [tela EXCEPT ![s] = [aba |-> "Listar Projetos", dia |-> hoje,
                                    linhas |-> TabelaListar(cache'.df, hoje)]]
    /\ UNCHANGED <<projetos_col, unique_index, hoje, pc, pendente, tentativas,
                   rejeitado, emitidos, entrada, saida>>

\* ttl=10 of st.cache_data: the memo expires
CacheExpirar ==
    /\ cache.valido
    /\ cache' = CacheVazio
    /\ UNCHANGED <<projetos_col, unique_index, hoje, pc, pendente, msgs,
                   tentativas, rejeitado, tela, submit, emitidos, entrada, saida>>
    /\ UNCHANGED <<session_state, execucao>>

\* midnight: date.today() changes; the pages left open are not looked at
\* again before their next run
AvancarDia ==
    /\ hoje < MaxDia
    /\ hoje' = hoje + 1
    /\ tela' = [s \in Sessoes |-> TelaVazia]
    /\ UNCHANGED <<projetos_col, unique_index, cache, pc, pendente, msgs,
                   tentativas, rejeitado, submit, emitidos, entrada, saida>>
    /\ UNCHANGED <<session_state, execucao>>

\* a script run of a session that has not logged in: check_password shows
\* the login form (and the error of src/app.py:32-33, the password field
\* being registered under its key) and st.stop() ends the run
\* (src/app.py:23-34, 46-47)
VerLogin(s) ==
    /\ pc[s] = "idle"
    /\ \E r \in {check_password(session_state[s])} :
         /\ ~r.ret
         /\ session_state' = [session_state EXCEPT ![s] = r.ss]
    /\ execucao' = [execucao EXCEPT ![s] = SemExecucao]
    /\ FimSemSubmit(s, {"senha_incorreta"})
    /\ UNCHANGED <<projetos_col, unique_index, cache, hoje, pc, pendente,
                   tentativas, rejeitado, emitidos, entrada, saida>>

\* a password typed into the field of the login form: password_entered runs,
\* then the script; past the gate it renders the Dashboard
\* (src/app.py:14-20, 29-31, 46-47)
PasswordEntered(s, senha) ==
    /\ pc[s] = "idle"
    /\ "password" \in DOMAIN session_state[s]
    /\ senha # session_state[s].password
    /\ \E r \in {check_password(password_entered(
                     [session_state[s] EXCEPT !.password = senha]))} :
         /\ session_state' = [session_state EXCEPT ![s] = r.ss]
         /\ execucao' = [execucao EXCEPT ![s] = [db |-> r.ret, senha |-> senha]]
         /\ IF r.ret
            THEN /\ cache' = Carregar(cache, projetos_col)
                 /\ msgs' = [msgs EXCEPT ![s] = {}]
                 /\ submit' = [submit EXCEPT ![s] = SemSubmit]
                 /\ tela' = [tela EXCEPT ![s] =
                                [aba |-> "Dashboard", dia |-> hoje,
                                 linhas |-> TabelaDashboard(cache'.df)]]
            ELSE /\ FimSemSubmit(s, {"senha_incorreta"})
                 /\ UNCHANGED cache
    /\ UNCHANGED <<projetos_col, unique_index, hoje, pc, pendente,
                   tentativas, rejeitado, emitidos, entrada, saida>>

-----------------------------------------------------------------------------
(* Script runs of concurrent sessions: a run's reads and its write are two
   steps, and other sessions' steps may come between them *)

Pendentes(p) == Cardinality({s \in Sessoes : pc[s] = p})

\* the memo after carregar_dados.clear(), when the handler reached it
CacheLimpo(r, c) == IF r.limpa THEN CacheVazio ELSE c

\* register submit up to the projeto dict (src/app.py:422-440)
CadastrarLer(s, dom, max) ==
    /\ pc[s] = "idle"
    /\ Executa(s)
    /\ Len(emitidos) + Pendentes("insert") < max
    /\ \E inp \in Entradas(dom, PadraoCadastro) :
         LET id_projeto == gerar_id_otimizado(projetos_col)
         IN  IF CadastroLevanta(inp) \/ DatasInvalidas(inp)
             THEN /\ Fim(s, "cadastrar", inp,
                         IF CadastroLevanta(inp) THEN {"excecao"}
                         ELSE {"erro_data"})
                  /\ UNCHANGED <<pc, pendente>>
             ELSE /\ Fim(s, "cadastrar", inp, {})
                  /\ pc' = [pc EXCEPT ![s] = "insert"]
                  /\ pendente' = [pendente EXCEPT ![s] =
                         [id |-> id_projeto,
                          dados |-> ProjetoCadastro(id_projeto, inp, hoje)]]
    /\ cache' = Carregar(cache, projetos_col)
    /\ tentativas' = [tentativas EXCEPT ![s] = 0]
    /\ rejeitado' = [rejeitado EXCEPT ![s] = FALSE]
    /\ UNCHANGED <<projetos_col, unique_index, hoje, emitidos, entrada, saida>>

\* register submit from insert_one on (src/app.py:441-448)
CadastrarInserir(s) ==
    /\ pc[s] = "insert"
    /\ LET r == SalvarProjeto(projetos_col, pendente[s].dados, unique_index)
       IN  /\ msgs' = [msgs EXCEPT ![s] = r.msgs]
           /\ projetos_col' = r.col
           /\ cache' = CacheLimpo(r, cache)
           /\ rejeitado' = [rejeitado EXCEPT ![s] = r.rejeitado]
           /\ emitidos' = IF r.inserido
                          THEN Append(emitidos, pendente[s].id)
                          ELSE emitidos
           /\ pc' = [pc EXCEPT ![s] = IF r.rerun THEN "rerun" ELSE "idle"]
    /\ tentativas' = [tentativas EXCEPT ![s] = 1]
    /\ pendente' = [pendente EXCEPT ![s] = NadaPendente]
    /\ UNCHANGED <<unique_index, hoje, tela, submit, entrada, saida>>
    /\ UNCHANGED <<session_state, execucao>>

\* edit submit up to dados_atualizados (src/app.py:450-571)
EditarLer(s, dom) ==
    /\ pc[s] = "idle"
    /\ Executa(s)
    /\ LET c1 == Carregar(cache, projetos_col)
       IN  /\ cache' = c1
           /\ \E projeto_selecionado \in Ids(c1.df) :
                LET i == FindOne(projetos_col, projeto_selecionado)
                IN  IF i = 0
                    THEN /\ FimSemSubmit(s, {"nao_encontrado"})
                         /\ UNCHANGED <<pc, pendente>>
                    ELSE \E inp \in
                             Entradas(dom, PadraoEdicao(projetos_col[i])) :
                           IF EdicaoLevanta(inp) \/ DatasInvalidas(inp)
                           THEN /\ FimEdicao(s, "editar",
                                             projeto_selecionado, inp,
                                             IF EdicaoLevanta(inp)
                                             THEN {"excecao"}
                                             ELSE {"erro_data"})
                                /\ UNCHANGED <<pc, pendente>>
                           ELSE /\ FimEdicao(s, "editar",
                                             projeto_selecionado, inp, {})
                                /\ pc' = [pc EXCEPT ![s] = "update"]
                                /\ pendente' = [pendente EXCEPT ![s] =
                                       [id |-> projeto_selecionado,
                                        dados |-> DadosAtualizados(inp, hoje)]]
    /\ UNCHANGED <<projetos_col, unique_index, hoje, tentativas, rejeitado,
                   emitidos, entrada, saida>>

\* edit submit from update_one on (src/app.py:572-581)
EditarGravar(s) ==
    /\ pc[s] = "update"
    /\ LET r == AtualizarProjeto(projetos_col, pendente[s].id, pendente[s].dados)
       IN  /\ msgs' = [msgs EXCEPT ![s] = r.msgs]
           /\ projetos_col' = r.col
           /\ cache' = CacheLimpo(r, cache)
           /\ pc' = [pc EXCEPT ![s] = IF r.rerun THEN "rerun" ELSE "idle"]
    /\ pendente' = [pendente EXCEPT ![s] = NadaPendente]
    /\ UNCHANGED <<unique_index, hoje, tentativas, rejeitado, tela, submit,
                   emitidos,
                   entrada, saida>>
    /\ UNCHANGED <<session_state, execucao>>

\* delete button up to the form (src/app.py:450-468)
ExcluirLer(s) ==
    /\ pc[s] = "idle"
    /\ Executa(s)
    /\ LET c1 == Carregar(cache, projetos_col)
       IN  /\ cache' = c1
           /\ \E projeto_selecionado \in Ids(c1.df) :
                IF FindOne(projetos_col, projeto_selecionado) = 0
                THEN /\ FimSemSubmit(s, {"nao_encontrado"})
                     /\ UNCHANGED <<pc, pendente>>
                ELSE /\ FimEdicao(s, "excluir", projeto_selecionado,
                                  [data_inicio |-> Date(0),
                                   data_termino |-> Date(0)], {})
                     /\ pc' = [pc EXCEPT ![s] = "delete"]
                     /\ pendente' = [pendente EXCEPT ![s] =
                            [id |-> projeto_selecionado, dados |-> <<>>]]
    /\ UNCHANGED <<projetos_col, unique_index, hoje, tentativas, rejeitado,
                   emitidos, entrada, saida>>

\* delete button from delete_one on (src/app.py:583-593)
ExcluirGravar(s) ==
    /\ pc[s] = "delete"
    /\ LET r == ExcluirProjeto(projetos_col, pendente[s].id)
       IN  /\ msgs' = [msgs EXCEPT ![s] = r.msgs]
           /\ projetos_col' = r.col
           /\ cache' = CacheLimpo(r, cache)
           /\ pc' = [pc EXCEPT ![s] = IF r.rerun THEN "rerun" ELSE "idle"]
    /\ pendente' = [pendente EXCEPT ![s] = NadaPendente]
    /\ UNCHANGED <<unique_index, hoje, tentativas, rejeitado, tela, submit,
                   emitidos,
                   entrada, saida>>
    /\ UNCHANGED <<session_state, execucao>>

\* st.rerun() after a successful update or delete (src/app.py:577, 589):
\* the script runs again from the top, loads the table and renders the
\* page without the message of the run before
Rerun(s) ==
    /\ pc[s] = "rerun"
    /\ cache' = Carregar(cache, projetos_col)
    /\ FimSemSubmit(s, {})
    /\ pc' = [pc EXCEPT ![s] = "idle"]
    /\ UNCHANGED <<projetos_col, unique_index, hoje, pendente, tentativas,
                   rejeitado, emitidos, session_state, execucao, entrada,
                   saida>>

\* a script run that finds no memoized table: the body of carregar_dados
\* reads the collection (src/app.py:132-144) ...
CarregarLer(s) ==
    /\ pc[s] = "idle"
    /\ Executa(s)
    /\ ~cache.valido
    /\ pc' = [pc EXCEPT ![s] = "load"]
    /\ pendente' = [pendente EXCEPT ![s] =
                       [id |-> <<>>, dados |-> DataFrame(projetos_col)]]
    /\ FimSemSubmit(s, {})
    /\ UNCHANGED <<projetos_col, unique_index, cache, hoje, tentativas,
                   rejeitado, emitidos, entrada, saida>>

\* ... and st.cache_data stores what the body returned (src/app.py:129),
\* whatever was written or cleared since the body read; the run then
\* renders its page
CarregarGuardar(s) ==
    /\ pc[s] = "load"
    /\ cache' = [valido |-> TRUE, df |-> pendente[s].dados]
    /\ pc' = [pc EXCEPT ![s] = "idle"]
    /\ pendente' = [pendente EXCEPT ![s] = NadaPendente]
    /\ UNCHANGED <<projetos_col, unique_index, hoje, msgs, tentativas,
                   rejeitado, tela, submit, emitidos, session_state, execucao,
                   entrada, saida>>

-----------------------------------------------------------------------------
(* The pure functions, applied to drawn inputs *)

Nada == [feito |-> FALSE, valor |-> <<>>]

\* gerar_id_otimizado() on the collection as found
GerarId ==
    /\ ~saida.feito
    /\ saida' = [feito |-> TRUE, valor |-> gerar_id_otimizado(projetos_col)]
    /\ UNCHANGED <<projetos_col, unique_index, cache, hoje, pc, pendente, msgs,
                   tentativas, rejeitado, tela, submit, emitidos, entrada>>
    /\ UNCHANGED <<session_state, execucao>>

\* calcular_progresso(data_inicio, data_termino) on the day hoje
CalcularProgresso ==
    /\ ~saida.feito
    /\ saida' = [feito |-> TRUE,
                 valor |-> calcular_progresso(entrada.data_inicio,
                                              entrada.data_termino, hoje)]
    /\ UNCHANGED <<projetos_col, unique_index, cache, hoje, pc, pendente, msgs,
                   tentativas, rejeitado, tela, submit, emitidos, entrada>>
    /\ UNCHANGED <<session_state, execucao>>

-----------------------------------------------------------------------------
(* Specifications *)

InitSessoes ==
    /\ pc = [s \in Sessoes |-> "idle"]
    /\ pendente = [s \in Sessoes |-> NadaPendente]
    /\ msgs = [s \in Sessoes |-> {}]
    /\ tentativas = [s \in Sessoes |-> 0]
    /\ rejeitado = [s \in Sessoes |-> FALSE]
    /\ tela = [s \in Sessoes |-> TelaVazia]
    /\ submit = [s \in Sessoes |-> SemSubmit]
    /\ emitidos = <<>>
    /\ cache = CacheVazio
    /\ execucao = [s \in Sessoes |-> SemExecucao]

\* an empty collection, with or without the unique index
Init ==
    /\ InitSessoes
    /\ session_state = [s \in Sessoes |-> Autenticada]
    /\ projetos_col = <<>>
    /\ unique_index \in BOOLEAN
    /\ hoje = 0
    /\ entrada = Nada
    /\ saida = Nada

\* sessions running concurrently
Next ==
    \/ \E s \in Sessoes : CadastrarLer(s, DomBasico, MaxCadastros)
    \/ \E s \in Sessoes : CadastrarInserir(s)
    \/ \E s \in Sessoes : EditarLer(s, DomBasico)
    \/ \E s \in Sessoes : EditarGravar(s)
    \/ \E s \in Sessoes : ExcluirLer(s)
    \/ \E s \in Sessoes : ExcluirGravar(s)
    \/ \E s \in Sessoes : Rerun(s)
    \/ CacheExpirar

Spec == Init /\ [][Next]_vars

\* one session, one operation at a time
NextSeq ==
    \/ Cadastrar(1, DomBasico, MaxCadastrosSeq)
    \/ Editar(1, DomBasico)
    \/ Excluir(1)
    \/ CacheExpirar

SpecSeq == Init /\ [][NextSeq]_vars

\* one session, one operation at a time, over a calendar
NextTempo ==
    \/ Cadastrar(1, DomTempo, MaxCadastrosTempo)
    \/ Editar(1, DomTempo)
    \/ Excluir(1)
    \/ VerDashboard(1)
    \/ VerListar(1)
    \/ CacheExpirar
    \/ AvancarDia

SpecTempo == Init /\ [][NextTempo]_vars

\* one session, one operation at a time, over the financial inputs
NextFin ==
    \/ Cadastrar(1, DomFin, MaxCadastrosFin)
    \/ Editar(1, DomFin)
    \/ Excluir(1)

SpecFin == Init /\ [][NextFin]_vars

\* the same, over every text of TextoLista
NextFinLivre ==
    \/ Cadastrar(1, DomFinLivre, MaxCadastrosLivre)
    \/ Editar(1, DomFinLivre)
    \/ Excluir(1)

SpecFinLivre == Init /\ [][NextFinLivre]_vars

\* sessions that start before the login form
DomLogin == [flags |-> {<<FALSE, FALSE>>}, textos |-> {}, datas |-> {<<0, 0>>}]

InitLogin ==
    /\ InitSessoes
    /\ session_state = [s \in Sessoes |-> SessaoNova]
    /\ projetos_col = <<>>
    /\ unique_index = FALSE
    /\ hoje = 0
    /\ entrada = Nada
    /\ saida = Nada

NextLogin ==
    \/ \E s \in Sessoes : VerLogin(s)
    \/ \E s \in Sessoes : \E senha \in Senhas : PasswordEntered(s, senha)
    \/ \E s \in Sessoes : VerDashboard(s)
    \/ \E s \in Sessoes : Cadastrar(s, DomLogin, MaxCadastrosLogin)
    \/ \E s \in Sessoes : Editar(s, DomLogin)
    \/ \E s \in Sessoes : Excluir(s)

SpecLogin == InitLogin /\ [][NextLogin]_vars

\* identifiers found in a collection: well formed, or not
IdsSujos ==
    { PROJ001,
      PROJ \o <<"0", "0", "3">>,
      PROJ \o <<"9", "9", "9">>,
      PROJ \o <<"1", "0", "0", "0">>,
      PROJ \o <<"7">>,
      <<"G", "A", "R", "B", "A", "G", "E">>,
      <<"Z", "Z", "Z">>,
      PROJ \o <<"0", "0", "A">> }

DocumentoCom(id) ==
    ProjetoCadastro(id, Entrada(FALSE, FALSE, TextoPadrao, TextoPadrao,
                                TextoPadrao, TextoPadrao, TextoPadrao,
                                <<0, 0>>), 0)

RECURSIVE Colecoes(_)
\* the collections of at most n documents with ids of IdsSujos
Colecoes(n) ==
    IF n = 0 THEN {<<>>}
    ELSE Colecoes(n - 1)
         \cup {Append(c, DocumentoCom(id)) :
                  c \in {x \in Colecoes(n - 1) : Len(x) = n - 1},
                  id \in IdsSujos}

InitId ==
    /\ InitSessoes
    /\ session_state = [s \in Sessoes |-> Autenticada]
    /\ projetos_col \in Colecoes(MaxIdsSujos)
    /\ unique_index = FALSE
    /\ hoje = 0
    /\ entrada = Nada
    /\ saida = Nada

NextId == GerarId

SpecId == InitId /\ [][NextId]_vars

DatasProg ==
    {None} \cup {Date(d) : d \in 0..MaxDiaProg}
           \cup {DatetimeCombine(Date(d)) : d \in 0..MaxDiaProg}

InitProg ==
    /\ InitSessoes
    /\ session_state = [s \in Sessoes |-> Autenticada]
    /\ projetos_col = <<>>
    /\ unique_index = FALSE
    /\ hoje \in 0..MaxDiaProg
    /\ entrada \in [data_inicio : DatasProg, data_termino : DatasProg]
    /\ saida = [feito |-> FALSE, valor |-> 0]

NextProg == CalcularProgresso

SpecProg == InitProg /\ [][NextProg]_vars

-----------------------------------------------------------------------------
(* aplicar_filtros_projetos (src/app.py:197-218) *)

\* pd.NA, the value of a column a document does not have
NA == "<NA>"

\* values found in the three filtered columns
ValoresStatus == {NA, "Atrasado", "Cancelado"}

ValoresEmpresa == {NA, "EURO"}

ValoresResponsavel == {"ALICE"}

RECURSIVE Tabelas(_)
\* the tables of at most n rows; a row is its index label and the three
\* filtered columns
Tabelas(n) ==
    IF n = 0 THEN {<<>>}
    ELSE Tabelas(n - 1)
         \cup {Append(t, [idx |-> n, Status |-> st, Empresa |-> em,
                          Responsavel |-> re]) :
                  t \in {x \in Tabelas(n - 1) : Len(x) = n - 1},
                  st \in ValoresStatus, em \in ValoresEmpresa,
                  re \in ValoresResponsavel}

\* sorted(df_base[coluna].dropna().unique().tolist()), as the set a
\* multiselect can choose from
Opcoes(df_base, coluna) ==
    {df_base[i][coluna] : i \in 1..Len(df_base)} \ {NA}

\* df[df[coluna].isin(valores)]
Isin(df, coluna, valores) ==
    SelectSeq(df, LAMBDA row : row[coluna] \in valores)

\* the filter with an empty selection applied like any other
aplicar_filtros_sem_if(df_base, filtro_status, filtro_empresa, filtro_responsavel) ==
    Isin(Isin(Isin(df_base, "Status", filtro_status),
              "Empresa", filtro_empresa),
         "Responsavel", filtro_responsavel)

\* aplicar_filtros_projetos(df_base) with the three selections made in the
\* sidebar (src/app.py:209-218)
aplicar_filtros_projetos(df_base, filtro_status, filtro_empresa, filtro_responsavel) ==
    LET d0 == df_base
        d1 == IF filtro_status # {} THEN Isin(d0, "Status", filtro_status)
              ELSE d0
        d2 == IF filtro_empresa # {} THEN Isin(d1, "Empresa", filtro_empresa)
              ELSE d1
        d3 == IF filtro_responsavel # {}
              THEN Isin(d2, "Responsavel", filtro_responsavel)
              ELSE d2
    IN  d3

\* the call of src/app.py:230 on a table and three selections
AplicarFiltros ==
    /\ ~saida.feito
    /\ saida' = [feito |-> TRUE,
                 valor |-> aplicar_filtros_projetos(entrada.df_base,
                               entrada.filtro_status, entrada.filtro_empresa,
                               entrada.filtro_responsavel)]
    /\ UNCHANGED <<projetos_col, unique_index, cache, hoje, pc, pendente, msgs,
                   tentativas, rejeitado, tela, submit, emitidos,
                   session_state, execucao, entrada>>

InitFiltro ==
    /\ InitSessoes
    /\ session_state = [s \in Sessoes |-> Autenticada]
    /\ projetos_col = <<>>
    /\ unique_index = FALSE
    /\ hoje = 0
    /\ entrada \in UNION {
           {[df_base |-> t, filtro_status |-> fs, filtro_empresa |-> fe,
             filtro_responsavel |-> fr] :
                fs \in SUBSET Opcoes(t, "Status"),
                fe \in SUBSET Opcoes(t, "Empresa"),
                fr \in SUBSET Opcoes(t, "Responsavel")} :
           t \in Tabelas(MaxLinhas)}
    /\ saida = Nada

NextFiltro == AplicarFiltros

SpecFiltro == InitFiltro /\ [][NextFiltro]_vars

-----------------------------------------------------------------------------
(* Concurrent sessions over one date pair more than the default *)

DomConc ==
    [flags |-> {<<FALSE, FALSE>>}, textos |-> {}, datas |-> {<<0, 0>>, <<0, 1>>}]

InitConc ==
    /\ InitSessoes
    /\ session_state = [s \in Sessoes |-> Autenticada]
    /\ projetos_col = <<>>
    /\ unique_index = FALSE
    /\ hoje = 0
    /\ entrada = Nada
    /\ saida = Nada

NextConc ==
    \/ \E s \in Sessoes : CadastrarLer(s, DomConc, MaxCadastrosConc)
    \/ \E s \in Sessoes : CadastrarInserir(s)
    \/ \E s \in Sessoes : EditarLer(s, DomConc)
    \/ \E s \in Sessoes : EditarGravar(s)
    \/ \E s \in Sessoes : ExcluirLer(s)
    \/ \E s \in Sessoes : ExcluirGravar(s)
    \/ \E s \in Sessoes : Rerun(s)
    \/ \E s \in Sessoes : CarregarLer(s)
    \/ \E s \in Sessoes : CarregarGuardar(s)
    \/ CacheExpirar

SpecConc == InitConc /\ [][NextConc]_vars

\* the same sessions, every carregar_dados() a single step
NextPar ==
    \/ \E s \in Sessoes : CadastrarLer(s, DomConc, MaxCadastrosPar)
    \/ \E s \in Sessoes : CadastrarInserir(s)
    \/ \E s \in Sessoes : EditarLer(s, DomConc)
    \/ \E s \in Sessoes : EditarGravar(s)
    \/ \E s \in Sessoes : ExcluirLer(s)
    \/ \E s \in Sessoes : ExcluirGravar(s)
    \/ \E s \in Sessoes : Rerun(s)

SpecPar == InitConc /\ [][NextPar]_vars

-----------------------------------------------------------------------------
(* Claims *)

Docs == {projetos_col[i] : i \in 1..Len(projetos_col)}

\* the numeric suffix of a well-formed id
Sufixo(id) == DigitsValue(SubSeq(id, Len(PROJ) + 1, Len(id)))

Maximo(S) == IF S = {} THEN 0 ELSE CHOOSE x \in S : \A y \in S : y <= x

\* C1: in a run of one session, from the empty collection, every id that
\* register assigns differs from every id a register assigned before it, and
\* its numeric suffix is the greatest suffix assigned before, plus one.
C1_IdNuncaReutilizado ==
    \A j \in 1..Len(emitidos) :
        /\ \A i \in 1..(j - 1) : emitidos[i] # emitidos[j]
        /\ Sufixo(emitidos[j])
             = Maximo({Sufixo(emitidos[i]) : i \in 1..(j - 1)}) + 1

\* C2: whatever the interleaving of the sessions' registers, no two documents
\* of the collection have the same ID_Projeto.
C2_IdsDistintos ==
    \A i, j \in 1..Len(projetos_col) :
        i # j => projetos_col[i].ID_Projeto # projetos_col[j].ID_Projeto

\* C3: a register whose insert the store rejected as a duplicate shows the
\* save error only after it has tried the insert again with a new id.
C3_RepeteAntesDeFalhar ==
    \A s \in Sessoes :
        (rejeitado[s] /\ "erro_salvar" \in msgs[s]) => tentativas[s] >= 2

\* C4: a written record with Tem_Orçamento and non-negative Orçamento and
\* Melhor_Proposta has Saving_Percent = (Orçamento - Melhor_Proposta) /
\* Melhor_Proposta * 100 when Melhor_Proposta > 0, and 0 when it is 0.
C4_SavingPercentSobreProposta ==
    \A d \in Docs :
        (d.Tem_Orcamento /\ d.Orcamento >= 0 /\ d.Melhor_Proposta >= 0)
        => d.Saving_Percent
             = IF d.Melhor_Proposta > 0
               THEN Percentual(d.Orcamento - d.Melhor_Proposta,
                               d.Melhor_Proposta)
               ELSE Zero

\* the ids of a collection that are PROJ followed by digits
Conformes(ids) ==
    {id \in ids : /\ Len(id) > Len(PROJ)
                  /\ SubSeq(id, 1, Len(PROJ)) = PROJ
                  /\ AllDigits(SubSeq(id, Len(PROJ) + 1, Len(id)))}

\* C5: the generated id is PROJ followed by the greatest numeric suffix of
\* the ids of the form PROJ<digits>, plus one, zero padded to three digits;
\* the other ids are ignored, and with no id of that form it is PROJ001.
C5_ProximoId ==
    saida.feito =>
        saida.valor
          = PROJ \o ZeroPad(DigitsOf(
                Maximo({Sufixo(id) : id \in Conformes(Ids(projetos_col))}) + 1),
                3)

\* C6: every written record has Saving_R$ = Orçamento - Melhor_Proposta when
\* Tem_Orçamento, else 0, and CE_Baseline_R$ = Baseline - Melhor_Proposta
\* when Linha_de_base, else 0.
C6_DerivadosRecalculados ==
    \A d \in Docs :
        /\ d.Saving_R = IF d.Tem_Orcamento
                        THEN d.Orcamento - d.Melhor_Proposta ELSE 0
        /\ d.CE_Baseline_R = IF d.Linha_de_base
                             THEN d.Baseline - d.Melhor_Proposta ELSE 0

\* an update has just rewritten a record that has a baseline and no budget,
\* and whose cost avoidance is not zero
C6_Atualizado ==
    /\ "atualizado" \in msgs[1]
    /\ \E d \in Docs : /\ ~d.Tem_Orcamento /\ d.Linha_de_base
                       /\ d.Melhor_Proposta # 0
                       /\ d.CE_Baseline_R # 0

\* C7: every written record has its five amounts >= 0, and each amount is 0
\* when the active mode does not use it.
C7_ValoresNaoNegativos ==
    \A d \in Docs :
        /\ d.Orcamento >= 0 /\ d.Baseline >= 0 /\ d.Melhor_Proposta >= 0
        /\ d.Preco_Inicial >= 0 /\ d.Preco_Final >= 0
        /\ ~d.Tem_Orcamento => d.Orcamento = 0
        /\ ~d.Linha_de_base => d.Baseline = 0
        /\ ~(d.Tem_Orcamento \/ d.Linha_de_base) => d.Melhor_Proposta = 0
        /\ (d.Tem_Orcamento \/ d.Linha_de_base)
           => (d.Preco_Inicial = 0 /\ d.Preco_Final = 0)

DatasCoerentes ==
    \A d \in Docs : d.Data_Termino.dia >= d.Data_Inicio.dia /\ d.Dias >= 0

\* C8: a register or update submitted with the end date before the start
\* date leaves the collection as it was and shows the date error; so every
\* written record has Data_Termino >= Data_Inicio and Dias >= 0.
C8_DatasRejeitadas ==
    /\ []DatasCoerentes
    /\ [][\A s \in Sessoes :
            submit'[s].termino_antes
            => /\ projetos_col' = projetos_col
               /\ "erro_data" \in msgs'[s]]_vars

\* an update with the end date before the start date was submitted for a
\* record of the collection
C8_EdicaoRejeitada ==
    /\ submit[1].op = "editar"
    /\ submit[1].termino_antes
    /\ Len(projetos_col) > 0

\* the progress the claim describes, in hundredths of a percent, but for the
\* rounding of the last case
ProgressoLimites(ini, fim, hj) ==
    IF ini.t = "None" \/ fim.t = "None" THEN {0}
    ELSE IF fim.dia < ini.dia THEN {0}
    ELSE IF fim.dia = ini.dia THEN (IF hj >= fim.dia THEN {10000} ELSE {0})
    ELSE IF hj <= ini.dia THEN {0}
    ELSE IF hj >= fim.dia THEN {10000}
    ELSE {p \in 0..10000 :
            2 * Abs(p * (fim.dia - ini.dia) - 10000 * (hj - ini.dia))
              <= fim.dia - ini.dia}

\* C9: calcular_progresso is 0 without a date, 0 when the end precedes the
\* start, 100 or 0 for a window of one day as today has reached it or not,
\* 0 up to the start, 100 from the end on, and otherwise the elapsed share of
\* the window in whole days, rounded to two decimals; always within [0, 100].
C9_Progresso ==
    saida.feito =>
        /\ saida.valor \in ProgressoLimites(entrada.data_inicio,
                                            entrada.data_termino, hoje)
        /\ saida.valor >= 0 /\ saida.valor <= 10000

\* the progress of a window of one day was computed on that day
C9_JanelaDeUmDia ==
    /\ saida.feito
    /\ entrada.data_inicio.t # "None" /\ entrada.data_termino.t # "None"
    /\ entrada.data_inicio.dia = entrada.data_termino.dia
    /\ hoje = entrada.data_termino.dia
    /\ saida.valor = 10000

\* C10: the progress a rendered table shows for a record is the progress
\* function of the record's dates and the day of the rendering.
C10_ProgressoAtual ==
    \A s \in Sessoes :
        \A i \in 1..Len(tela[s].linhas) :
            tela[s].linhas[i].Progresso_Porcentagem
              = calcular_progresso(tela[s].linhas[i].Data_Inicio,
                                   tela[s].linhas[i].Data_Termino,
                                   tela[s].dia)

\* the selections of the sidebar accept a row
Aceita(row, e) ==
    /\ e.filtro_status # {} => row.Status \in e.filtro_status
    /\ e.filtro_empresa # {} => row.Empresa \in e.filtro_empresa
    /\ e.filtro_responsavel # {} => row.Responsavel \in e.filtro_responsavel

\* C11: aplicar_filtros_projetos returns the rows that every non-empty
\* selection accepts, each once and in the order of the input; with the
\* three selections empty it returns the input; the input is left as it was.
C11_FiltroEstavel ==
    /\ [](saida.feito =>
            /\ {saida.valor[k] : k \in 1..Len(saida.valor)}
                 = {entrada.df_base[i] :
                      i \in {j \in 1..Len(entrada.df_base) :
                                Aceita(entrada.df_base[j], entrada)}}
            /\ \A k, l \in 1..Len(saida.valor) :
                  k < l => saida.valor[k].idx < saida.valor[l].idx
            /\ (/\ entrada.filtro_status = {}
                /\ entrada.filtro_empresa = {}
                /\ entrada.filtro_responsavel = {})
               => saida.valor = entrada.df_base)
    /\ [][entrada' = entrada]_vars

\* a status selection with no company selection kept two rows of three and
\* dropped a row without status
C11_FiltroParcial ==
    /\ saida.feito
    /\ entrada.filtro_status # {}
    /\ entrada.filtro_empresa = {}
    /\ Len(entrada.df_base) = 3
    /\ Len(saida.valor) = 2
    /\ \E i \in 1..3 : entrada.df_base[i].Status = NA

\* C12: no submit is ended by the KPI arithmetic, and in every written
\* record a percentage whose denominator (Orçamento, Baseline,
\* Preço_Inicial) is 0 is exactly 0.
C12_DivisaoGuardada ==
    /\ \A s \in Sessoes : "excecao" \notin msgs[s]
    /\ \A d \in Docs :
          /\ d.Saving_Percent # ZeroDivisionError
          /\ d.Percentual_CE_Linha_de_base # ZeroDivisionError
          /\ d.Porcentagem_CE # ZeroDivisionError
          /\ d.Orcamento = 0 => d.Saving_Percent = Zero
          /\ d.Baseline = 0 => d.Percentual_CE_Linha_de_base = Zero
          /\ d.Preco_Inicial = 0 => d.Porcentagem_CE = Zero

\* an update has just written a record with both modes on and all amounts 0
C12_TudoZero ==
    /\ "atualizado" \in msgs[1]
    /\ \E d \in Docs : /\ d.Tem_Orcamento /\ d.Linha_de_base
                       /\ d.Orcamento = 0 /\ d.Baseline = 0
                       /\ d.Melhor_Proposta = 0

\* C13: an update leaves the number of records and every ID_Projeto as they
\* were and changes no record with another id than the selected one; a
\* delete removes nothing, or one record with the selected id, and leaves the
\* others as they were, in order.
C13_IdImutavel ==
    [][/\ submit'[1].op = "editar"
          => /\ Len(projetos_col') = Len(projetos_col)
             /\ \A i \in 1..Len(projetos_col) :
                   /\ projetos_col'[i].ID_Projeto = projetos_col[i].ID_Projeto
                   /\ projetos_col[i].ID_Projeto # submit'[1].alvo
                      => projetos_col'[i] = projetos_col[i]
       /\ submit'[1].op = "excluir"
          => \/ projetos_col' = projetos_col
             \/ \E i \in 1..Len(projetos_col) :
                   /\ projetos_col[i].ID_Projeto = submit'[1].alvo
                   /\ projetos_col'
                        = SubSeq(projetos_col, 1, i - 1)
                          \o SubSeq(projetos_col, i + 1, Len(projetos_col))
      ]_vars

\* an update has just modified one of two records with different ids
C13_DoisRegistros ==
    /\ "atualizado" \in msgs[1]
    /\ submit[1].op = "editar"
    /\ Len(projetos_col) = 2
    /\ projetos_col[1].ID_Projeto # projetos_col[2].ID_Projeto
    /\ projetos_col[1].Dias # projetos_col[2].Dias

\* C14: a register shows the save error only when its insert_one raised.
C14_ErroSoSemInsercao ==
    \A s \in Sessoes : "erro_salvar" \in msgs[s] => rejeitado[s]

Logado(s) ==
    /\ "password_correct" \in DOMAIN session_state[s]
    /\ session_state[s].password_correct

\* C15: a script run reaches the database code only in a session whose
\* password_correct is true; the flag becomes true only in a step whose
\* callback received the configured password, and stays true.
C15_SemLoginSemBanco ==
    /\ [](\A s \in Sessoes : execucao[s].db => Logado(s))
    /\ [][\A s \in Sessoes :
            /\ Logado(s) => Logado(s)'
            /\ (~Logado(s) /\ Logado(s)')
               => execucao'[s].senha = login_password]_vars

\* one session has logged in and registered a project while the other was
\* refused with a wrong password
C15_UmaDentroOutraFora ==
    /\ Logado(1) /\ execucao[1].db
    /\ Len(projetos_col) > 0
    /\ ~Logado(2) /\ execucao[2].senha = "errada"

\* C16: an update_one or delete_one issued for an id that is not in the
\* collection leaves the collection as it was and shows no success message.
C16_AlvoAusente ==
    [][\A s \in Sessoes :
         (/\ pc[s] \in {"update", "delete"}
          /\ pc'[s] # pc[s]
          /\ pendente[s].id \notin Ids(projetos_col))
         => /\ projetos_col' = projetos_col
            /\ msgs'[s] \cap {"atualizado", "excluido"} = {}]_vars

\* a delete_one matched nothing: the record had been removed by the other
\* session
C16_ExclusaoSemAlvo ==
    \E s \in Sessoes : "nao_encontrado_exclusao" \in msgs[s]

\* C17: in every state where a session is about to run its script after its
\* own successful update or delete (the rerun) or after its own successful
\* register, the table that run's carregar_dados() returns is the table of
\* the collection's current contents.
C17_ProximaCargaAtual ==
    \A s \in Sessoes :
        (\/ pc[s] = "rerun"
         \/ (pc[s] = "idle" /\ "salvo" \in msgs[s]))
        => Carregar(cache, projetos_col).df = DataFrame(projetos_col)

====
